---------------------------- MODULE Spec2Model ----------------------------
(***************************************************************************)
(* Model of src-tauri/scripts/generate-installer-assets.py: the module     *)
(* level directory creation, the three image creators and the __main__     *)
(* driver, together with the part of the drawing library (Pillow) and of   *)
(* the filesystem that the script's observable behaviour depends on.       *)
(*                                                                         *)
(* A raster is kept as Pillow keeps an RGB image: one packed integer per   *)
(* pixel (r + 256*g + 65536*b), row by row.  Pixel coordinates start at 0.  *)
(***************************************************************************)
EXTENDS Integers, Sequences, FiniteSets, TLC

(***************************************************************************)
(* Bounds of the model (not program constants).                            *)
(***************************************************************************)
MaxRuns == 2

(***************************************************************************)
(* Arithmetic helpers.                                                     *)
(***************************************************************************)
Max(a, b) == IF a >= b THEN a ELSE b
Min(a, b) == IF a <= b THEN a ELSE b
Abs(a) == IF a >= 0 THEN a ELSE -a

(* Python int(): truncation toward zero of the rational n/d, d > 0.        *)
Trunc(n, d) == IF n >= 0 THEN n \div d ELSE -((-n) \div d)

(* Draw.c ROUND_UP / ROUND_DOWN on the rational n/d, d > 0: round to the   *)
(* nearest integer, a half going away from zero (UP) or toward zero (DOWN). *)
ROUND_UP(n, d) ==
    IF n >= 0 THEN (2 * n + d) \div (2 * d) ELSE -((2 * (-n) + d) \div (2 * d))
ROUND_DOWN(n, d) ==
    IF n >= 0 THEN -((d - 2 * n) \div (2 * d)) ELSE (d - 2 * (-n)) \div (2 * d)

(***************************************************************************)
(* Colours (lines 17-19) and their packed form.                            *)
(***************************************************************************)
DMG_BG_COLOR == <<245, 245, 247>>
ARROW_COLOR == <<160, 160, 165>>
ACCENT_COLOR == <<249, 115, 22>>

GetInk(c) == c[1] + 256 * c[2] + 65536 * c[3]
Unpack(p) == <<p % 256, (p \div 256) % 256, (p \div 65536) % 256>>

(***************************************************************************)
(* Image.new, getpixel and the drawing primitives of ImageDraw that the    *)
(* creators call.  A raster's rows, and the pixels of a row, are sequences: *)
(* pixel (x, y) is rows[y + 1][x + 1].                                      *)
(***************************************************************************)
(* The sequence f, enumerated.                                              *)
AsSeq(f) == f \o <<>>

Image_new(w, h, color) ==
    [width |-> w, height |-> h,
     rows |-> AsSeq([r \in 1..h |-> AsSeq([c \in 1..w |-> GetInk(color)])])]

GetPixel(im, x, y) == Unpack(im.rows[y + 1][x + 1])

(* point32: one pixel, silently clipped to the image.                       *)
Point(im, x, y, ink) ==
    IF x >= 0 /\ x < im.width /\ y >= 0 /\ y < im.height
    THEN [im EXCEPT !.rows[y + 1][x + 1] = ink]
    ELSE im

(* hline32: the pixels x0..x1 of row y, clipped to the image.               *)
HLine(im, x0, y, x1, ink) ==
    IF y < 0 \/ y >= im.height \/ x0 >= im.width \/ x1 < 0
    THEN im
    ELSE LET a == Max(x0, 0)
             b == Min(x1, im.width - 1)
             old == im.rows[y + 1]
         IN  [im EXCEPT !.rows[y + 1] =
                 AsSeq([c \in 1..im.width |->
                          IF c - 1 >= a /\ c - 1 <= b THEN ink ELSE old[c]])]

(* line32, vertical branch: the n pixels (x, y), (x, y + ys), ... each      *)
(* drawn with point32, so clipped to the image.                             *)
VPoints(im, x, y, ys, n, ink) ==
    IF x < 0 \/ x >= im.width THEN im
    ELSE LET old == im.rows
         IN  [im EXCEPT !.rows =
                 AsSeq([r \in 1..im.height |->
                     IF (r - 1 - y) * ys >= 0 /\ (r - 1 - y) * ys < n
                     THEN [old[r] EXCEPT ![x + 1] = ink]
                     ELSE old[r]])]

(* line32, horizontal branch: the n pixels (x, y), (x + xs, y), ...         *)
HPoints(im, x, y, xs, n, ink) ==
    IF y < 0 \/ y >= im.height THEN im
    ELSE LET old == im.rows[y + 1]
         IN  [im EXCEPT !.rows[y + 1] =
                 AsSeq([c \in 1..im.width |->
                     IF (c - 1 - x) * xs >= 0 /\ (c - 1 - x) * xs < n
                     THEN ink ELSE old[c]])]

Sign(a) == IF a < 0 THEN -1 ELSE 1

(* ImagingDrawLine followed by the "draw last point" of _draw_lines: the    *)
(* segment without its end point, then the end point.  Only the vertical    *)
(* and horizontal branches of line32 are modelled, the only ones the script *)
(* reaches.                                                                 *)
ThinLine(im, x0, y0, x1, y1, ink) ==
    LET seg == IF x1 = x0
               THEN VPoints(im, x0, y0, Sign(y1 - y0), Abs(y1 - y0), ink)
               ELSE HPoints(im, x0, y0, Sign(x1 - x0), Abs(x1 - x0), ink)
    IN  Point(seg, x1, y1, ink)

(***************************************************************************)
(* polygon_generic (Draw.c): scan-line fill of a list of edges.  An edge is *)
(* <<x0, y0, x1, y1>>.  An intersection abscissa is the rational n/d kept   *)
(* as <<n, d>> with d > 0; the library computes it in single precision,     *)
(* which rounds to the same pixel whenever the exact value is not within    *)
(* 1e-4 of a half, as is the case for every edge the script draws.          *)
(***************************************************************************)
EdgeYMin(e) == Min(e[2], e[4])
EdgeYMax(e) == Max(e[2], e[4])
EdgeXMin(e) == Min(e[1], e[3])
EdgeXMax(e) == Max(e[1], e[3])

(* x0 + (y - y0) * dx with dx = (x1 - x0) / (y1 - y0), for y0 # y1.         *)
EdgeX(e, y) ==
    LET den == Abs(e[4] - e[2])
    IN  <<e[1] * den + (y - e[2]) * (e[3] - e[1]) * Sign(e[4] - e[2]), den>>

RatLeq(a, b) == a[1] * b[2] <= b[1] * a[2]

RECURSIVE Insert(_, _)
Insert(s, a) ==
    IF s = <<>> THEN <<a>>
    ELSE IF RatLeq(a, Head(s)) THEN <<a>> \o s
    ELSE <<Head(s)>> \o Insert(Tail(s), a)

RECURSIVE SortRat(_)
SortRat(s) == IF s = <<>> THEN <<>> ELSE Insert(SortRat(Tail(s)), Head(s))

(* The intersections of scan line y with the non-horizontal edges, in edge  *)
(* order; an edge ending on y (above the last scan line) counts twice.      *)
RECURSIVE Crossings(_, _, _)
Crossings(edges, y, ymax) ==
    IF edges = <<>> THEN <<>>
    ELSE LET e == Head(edges)
             here == IF e[2] # e[4] /\ y >= EdgeYMin(e) /\ y <= EdgeYMax(e)
                     THEN IF y = EdgeYMax(e) /\ y < ymax
                          THEN <<EdgeX(e, y), EdgeX(e, y)>>
                          ELSE <<EdgeX(e, y)>>
                     ELSE <<>>
         IN  here \o Crossings(Tail(edges), y, ymax)

(* The spans of one scan line: the sorted crossings taken two by two.       *)
RECURSIVE Spans(_, _, _, _)
Spans(im, xx, y, ink) ==
    IF Len(xx) < 2 THEN im
    ELSE Spans(HLine(im, ROUND_UP(xx[1][1], xx[1][2]), y,
                     ROUND_DOWN(xx[2][1], xx[2][2]), ink),
               Tail(Tail(xx)), y, ink)

RECURSIVE ScanLines(_, _, _, _, _)
ScanLines(im, edges, y, ymax, ink) ==
    IF y > ymax THEN im
    ELSE ScanLines(Spans(im, SortRat(Crossings(edges, y, ymax)), y, ink),
                   edges, y + 1, ymax, ink)

(* The horizontal edges are drawn as they are met.                          *)
RECURSIVE FlatEdges(_, _, _)
FlatEdges(im, edges, ink) ==
    IF edges = <<>> THEN im
    ELSE LET e == Head(edges)
         IN  FlatEdges(IF e[2] = e[4]
                       THEN HLine(im, EdgeXMin(e), e[2], EdgeXMax(e), ink)
                       ELSE im,
                       Tail(edges), ink)

RECURSIVE SeqMin(_)
SeqMin(s) == IF Len(s) = 1 THEN s[1] ELSE Min(s[1], SeqMin(Tail(s)))
RECURSIVE SeqMax(_)
SeqMax(s) == IF Len(s) = 1 THEN s[1] ELSE Max(s[1], SeqMax(Tail(s)))

PolygonGeneric(im, edges, ink) ==
    LET ymin == Max(0, SeqMin([i \in 1..Len(edges) |-> EdgeYMin(edges[i])]))
        ymax == Min(im.height, SeqMax([i \in 1..Len(edges) |-> EdgeYMax(edges[i])]))
    IN  ScanLines(FlatEdges(im, edges, ink), edges, ymin, ymax, ink)

(* ImagingDrawPolygon with fill: one edge per pair of consecutive vertices, *)
(* and the closing edge when the last vertex is not the first.              *)
PolygonEdges(xy) ==
    LET n == Len(xy)
        open == [i \in 1..(n - 1) |-> <<xy[i][1], xy[i][2], xy[i + 1][1], xy[i + 1][2]>>]
    IN  IF xy[n] # xy[1]
        THEN open \o << <<xy[n][1], xy[n][2], xy[1][1], xy[1][2]>> >>
        ELSE open

(* ImagingDrawWideLine for an axis-parallel segment: the rectangle whose    *)
(* corners lie (width - 1) / 2 on either side of the segment, one side      *)
(* rounded down and the other up, filled as a polygon.                      *)
WideLine(im, x0, y0, x1, y1, ink, width) ==
    IF x1 = x0 /\ y1 = y0 THEN Point(im, x0, y0, ink)
    ELSE LET ratio_x == IF y1 = y0 THEN Sign(x1 - x0) ELSE 0
             ratio_y == IF x1 = x0 THEN Sign(y1 - y0) ELSE 0
             dxmin == ROUND_DOWN((width - 1) * ratio_y, 2)
             dxmax == ROUND_UP((width - 1) * ratio_y, 2)
             dymin == ROUND_DOWN((width - 1) * ratio_x, 2)
             dymax == ROUND_UP((width - 1) * ratio_x, 2)
             v == << <<x0 - dxmin, y0 + dymax>>, <<x1 - dxmin, y1 + dymax>>,
                     <<x1 + dxmax, y1 - dymin>>, <<x0 + dxmax, y0 - dymin>> >>
         IN  PolygonGeneric(im, PolygonEdges(v), ink)

(* ImageDraw.line(xy, fill, width) for the two-point lists the script uses. *)
Draw_line(im, p0, p1, fill, width) ==
    IF width <= 1
    THEN ThinLine(im, p0[1], p0[2], p1[1], p1[2], GetInk(fill))
    ELSE WideLine(im, p0[1], p0[2], p1[1], p1[2], GetInk(fill), width)

(* ImageDraw.polygon(xy, fill): the filled interior, no separate outline.   *)
Draw_polygon(im, xy, fill) == PolygonGeneric(im, PolygonEdges(xy), GetInk(fill))

(***************************************************************************)
(* The three rasters, as the creators draw them (lines 23-50, 61-68,        *)
(* 79-89).                                                                 *)
(***************************************************************************)
DMG_WIDTH == 660
DMG_HEIGHT == 400
arrow_y == 190
arrow_start_x == 260
arrow_end_x == 400
shaft_thickness == 4
head_length == 14
head_width == 10

arrow_head ==
    << <<arrow_end_x, arrow_y>>,
       <<arrow_end_x - head_length, arrow_y - head_width>>,
       <<arrow_end_x - head_length, arrow_y + head_width>> >>

(* Variant: the shaft is drawn up to the tip of the head.                   *)
DmgShaft_ToTip(im) ==
    Draw_line(im, <<arrow_start_x, arrow_y>>, <<arrow_end_x, arrow_y>>,
              ARROW_COLOR, shaft_thickness)

(* Lines 39-40.                                                             *)
DmgShaft(im) ==
    Draw_line(im, <<arrow_start_x, arrow_y>>, <<arrow_end_x - 12, arrow_y>>,
              ARROW_COLOR, shaft_thickness)

(* Line 50.                                                                 *)
DmgHead(im) == Draw_polygon(im, arrow_head, ARROW_COLOR)

(* Lines 23-50.                                                             *)
DmgImage == DmgHead(DmgShaft(Image_new(DMG_WIDTH, DMG_HEIGHT, DMG_BG_COLOR)))

HEADER_WIDTH == 150
HEADER_HEIGHT == 57

(* Variant: the gradient runs the other way.                                *)
HeaderShade_Rising(x) == Trunc(219 * 150 + x * 30, 150)

(* int(249 - (x / width) * 30).  The doubles Python computes truncate to    *)
(* the same integers as the exact rationals for every x in range(width).    *)
HeaderShade(x) == Trunc(249 * HEADER_WIDTH - x * 30, HEADER_WIDTH)

(* Variant: the difference is truncated, not the product.                   *)
HeaderGreen_WholeTrunc(x) == Trunc(Max(80 * 150, 115 * 150 - x * 35), 150)

(* max(80, 115 - int(x / width * 35)): the product is truncated, then       *)
(* subtracted.                                                              *)
HeaderGreen(x) == Max(80, 115 - Trunc(x * 35, HEADER_WIDTH))

(* Line 68: the column x, from row 0 to row height.                         *)
HeaderColumn(im, x) ==
    Draw_line(im, <<x, 0>>, <<x, HEADER_HEIGHT>>,
              <<HeaderShade(x), HeaderGreen(x), 22>>, 0)

(* The iterations lo..hi of "for x in range(width)", in increasing order;   *)
(* the range is halved, and a column beyond the image draws nothing.        *)
RECURSIVE HeaderLoop(_, _, _)
HeaderLoop(im, lo, hi) ==
    IF lo > Min(hi, im.width - 1) THEN im
    ELSE IF lo = hi THEN HeaderColumn(im, lo)
    ELSE LET mid == (lo + hi) \div 2
         IN  HeaderLoop(HeaderLoop(im, lo, mid), mid + 1, hi)

(* Lines 61-68.                                                             *)
HeaderImage ==
    HeaderLoop(Image_new(HEADER_WIDTH, HEADER_HEIGHT, ACCENT_COLOR), 0, HEADER_WIDTH - 1)

SIDEBAR_WIDTH == 164
SIDEBAR_HEIGHT == 314

(* Variant: factor = y // height, an integer division.                      *)
SidebarColor_IntFactor(y) ==
    <<249 - (y \div 314) * 50, 115 - (y \div 314) * 40, 22 + (y \div 314) * 10>>

(* factor = y / height; int(249 - factor * 50), int(115 - factor * 40),     *)
(* int(22 + factor * 10).  As for the header, the doubles truncate to the   *)
(* same integers as the exact rationals for every y in range(height).       *)
SidebarColor(y) ==
    <<Trunc(249 * SIDEBAR_HEIGHT - y * 50, SIDEBAR_HEIGHT),
      Trunc(115 * SIDEBAR_HEIGHT - y * 40, SIDEBAR_HEIGHT),
      Trunc(22 * SIDEBAR_HEIGHT + y * 10, SIDEBAR_HEIGHT)>>

(* Line 89: the row y, from column 0 to column width.                       *)
SidebarRow(im, y) ==
    Draw_line(im, <<0, y>>, <<SIDEBAR_WIDTH, y>>, SidebarColor(y), 0)

(* The iterations lo..hi of "for y in range(height)", in increasing order;  *)
(* the range is halved, and a row beyond the image draws nothing.           *)
RECURSIVE SidebarLoop(_, _, _)
SidebarLoop(im, lo, hi) ==
    IF lo > Min(hi, im.height - 1) THEN im
    ELSE IF lo = hi THEN SidebarRow(im, lo)
    ELSE LET mid == (lo + hi) \div 2
         IN  SidebarLoop(SidebarLoop(im, lo, mid), mid + 1, hi)

(* Lines 79-89.                                                             *)
SidebarImage ==
    SidebarLoop(Image_new(SIDEBAR_WIDTH, SIDEBAR_HEIGHT, ACCENT_COLOR), 0, SIDEBAR_HEIGHT - 1)

(***************************************************************************)
(* Paths and console lines.                                                *)
(***************************************************************************)
(* os.path.dirname(__file__): where the script lives.                       *)
SCRIPT_DIR == "/repo/src-tauri/scripts"

(* os.path.join of two components (posixpath.join): an absolute second     *)
(* component discards the first; an empty first component, or one that     *)
(* ends in "/", takes no separator; otherwise the two are joined by "/".   *)
os_path_join(a, b) ==
    IF Len(b) > 0 /\ SubSeq(b, 1, 1) = "/" THEN b
    ELSE IF a = "" \/ SubSeq(a, Len(a), Len(a)) = "/" THEN a \o b
    ELSE a \o "/" \o b

OUTPUT_DIR == os_path_join(os_path_join(SCRIPT_DIR, ".."), "installer-assets")

DMG_PATH == os_path_join(OUTPUT_DIR, "dmg-background.png")
HEADER_PATH == os_path_join(OUTPUT_DIR, "nsis-header.bmp")
SIDEBAR_PATH == os_path_join(OUTPUT_DIR, "nsis-sidebar.bmp")

Paths == {DMG_PATH, HEADER_PATH, SIDEBAR_PATH}

START_BANNER == "Generating minimal installer assets..."
DONE_BANNER == "Done!"
(* Variant: the confirmation names the directory.                           *)
Created_Dir(path) == "Created: " \o OUTPUT_DIR
Created(path) == "Created: " \o path

(***************************************************************************)
(* Image files.  PNG is a lossless compressed format: a row is stored as    *)
(* its runs of equal pixels, the function from the first column of each run *)
(* to the run's pixel.  BMP is uncompressed: the rows are stored as they    *)
(* are, the bottom row first.                                               *)
(***************************************************************************)
Runs(row) ==
    [c \in {c \in 1..Len(row) : c = 1 \/ row[c] # row[c - 1]} |-> row[c]]

EncodeData(fmt, im) ==
    IF fmt = "PNG"
    THEN AsSeq([r \in 1..im.height |-> Runs(im.rows[r])])
    ELSE AsSeq([r \in 1..im.height |-> im.rows[im.height + 1 - r]])

(* The pixel (x, y) of a decoded image file.                                *)
FilePixel(f, x, y) ==
    IF f.format = "PNG"
    THEN LET runs == f.data[y + 1]
             start == CHOOSE c \in DOMAIN runs :
                         c <= x + 1 /\ \A d \in DOMAIN runs : d <= x + 1 => d <= c
         IN  Unpack(runs[start])
    ELSE Unpack(f.data[f.height - y][x + 1])

(***************************************************************************)
(* File contents.  A file is absent, holds something this program did not   *)
(* write ("other"), was truncated by a write that failed, or holds an       *)
(* encoded image.                                                           *)
(***************************************************************************)
NoImage == [width |-> 0, height |-> 0, rows |-> <<>>]

NoFile(st) == [state |-> st, format |-> "", width |-> 0, height |-> 0, data |-> <<>>]
Absent == NoFile("absent")
Other == NoFile("other")
Truncated == NoFile("truncated")
Encoded(fmt, im) ==
    [state |-> "written", format |-> fmt, width |-> im.width, height |-> im.height,
     data |-> EncodeData(fmt, im)]

(* The outcomes of img.save: written; the open fails and the file is left   *)
(* as it was; the write fails after the open truncated the file, and the    *)
(* library removes the file if the open created it.                         *)
Faults == {"none", "open", "write"}

AfterSave(old, fmt, im, fault) ==
    CASE fault = "none" -> Encoded(fmt, im)
      [] fault = "open" -> old
      [] fault = "write" -> IF old.state = "absent" THEN Absent ELSE Truncated

(* Variant: the header is created first.                                    *)
MainCalls_HeaderFirst ==
    <<"create_nsis_header", "create_dmg_background", "create_nsis_sidebar">>

(* The calls of lines 100-102, in order.                                    *)
MainCalls == <<"create_dmg_background", "create_nsis_header", "create_nsis_sidebar">>

Creators == {"create_dmg_background", "create_nsis_header", "create_nsis_sidebar"}

Entry(name) ==
    CASE name = "create_dmg_background" -> "dmg_draw"
      [] name = "create_nsis_header" -> "header_draw"
      [] name = "create_nsis_sidebar" -> "sidebar_draw"

(***************************************************************************)
(* State.                                                                  *)
(*   pc          where the process is                                      *)
(*   run         the number of the current run of the script               *)
(*   order       the creator calls the driver makes, in order              *)
(*   ip          how many of them have returned                            *)
(*   calls       the creators invoked so far by this run, in order         *)
(*   returned    the values they returned                                  *)
(*   img         the raster of the creator being executed                  *)
(*   output_path the creator's local output_path                           *)
(*   dir         the state of OUTPUT_DIR: "absent", "dir" or "file"        *)
(*   parent_writable  whether OUTPUT_DIR's parent accepts new entries      *)
(*   files       the contents found under the three file names            *)
(*   console     the lines printed by this run                             *)
(*   written     the paths this run has written                            *)
(*   before      files as they were when this run started                  *)
(***************************************************************************)
VARIABLES pc, run, order, ip, calls, returned, img, output_path,
          dir, parent_writable, files, console, written, before

vars == <<pc, run, order, ip, calls, returned, img, output_path,
          dir, parent_writable, files, console, written, before>>

fs == <<dir, parent_writable, files>>
locals == <<img, output_path>>
driver == <<run, order, ip, calls, returned, before>>

(***************************************************************************)
(* Initial states: a fresh process over any state of the filesystem.  The   *)
(* three names can hold files only if OUTPUT_DIR is a directory.            *)
(***************************************************************************)
InitFs ==
    /\ dir \in {"absent", "dir", "file"}
    /\ parent_writable \in BOOLEAN
    /\ files \in [Paths -> {Absent, Other}]
    /\ dir # "dir" => \A p \in Paths : files[p] = Absent

InitProcess ==
    /\ pc = "makedirs"
    /\ run = 1
    /\ ip = 0
    /\ calls = <<>>
    /\ returned = <<>>
    /\ img = NoImage
    /\ output_path = ""
    /\ console = <<>>
    /\ written = {}
    /\ before = files

Init == InitFs /\ InitProcess /\ order = MainCalls

(* Variant: a failure to create the directory is ignored.                   *)
makedirs_IgnoreError ==
    /\ pc = "makedirs"
    /\ pc' = "banner"
    /\ dir' = IF dir = "absent" /\ parent_writable THEN "dir" ELSE dir
    /\ UNCHANGED <<parent_writable, files, locals, driver, console, written>>

(* Variant: exist_ok is not passed, an existing directory raises.           *)
makedirs_NoExistOk ==
    /\ pc = "makedirs"
    /\ IF dir = "absent" /\ parent_writable THEN pc' = "banner" /\ dir' = "dir"
       ELSE pc' = "aborted" /\ dir' = dir
    /\ UNCHANGED <<parent_writable, files, locals, driver, console, written>>

(***************************************************************************)
(* Line 14: os.makedirs(OUTPUT_DIR, exist_ok=True), run when the module is  *)
(* loaded.  An existing directory is accepted as it is; anything else under *)
(* the name, or a parent that refuses the new entry, raises.                *)
(***************************************************************************)
makedirs ==
    /\ pc = "makedirs"
    /\ IF dir = "dir" THEN pc' = "banner" /\ dir' = dir
       ELSE IF dir = "absent" /\ parent_writable THEN pc' = "banner" /\ dir' = "dir"
       ELSE pc' = "aborted" /\ dir' = dir
    /\ UNCHANGED <<parent_writable, files, locals, driver, console, written>>

(* Line 99.                                                                 *)
PrintStart ==
    /\ pc = "banner"
    /\ console' = Append(console, START_BANNER)
    /\ pc' = "main"
    /\ UNCHANGED <<fs, locals, driver, written>>

(* Lines 100-102: the next call of the driver.                              *)
Call ==
    /\ pc = "main"
    /\ ip < Len(order)
    /\ calls' = Append(calls, order[ip + 1])
    /\ pc' = Entry(order[ip + 1])
    /\ UNCHANGED <<fs, locals, run, order, ip, returned, before, console, written>>

(* Line 103.                                                                *)
PrintDone ==
    /\ pc = "main"
    /\ ip = Len(order)
    /\ console' = Append(console, DONE_BANNER)
    /\ pc' = "done"
    /\ UNCHANGED <<fs, locals, driver, written>>

(***************************************************************************)
(* The steps shared by the three creators.                                  *)
(***************************************************************************)
(* Variant: a failed save removes the files the run wrote before.           *)
Save_Rollback(at, path, fmt, next) ==
    /\ pc = at
    /\ output_path' = path
    /\ \E fault \in Faults :
          IF fault = "none"
          THEN /\ files' = [files EXCEPT ![path] = Encoded(fmt, img)]
               /\ pc' = next /\ written' = written \cup {path}
          ELSE /\ files' = [p \in Paths |-> IF p \in written THEN Absent ELSE files[p]]
               /\ pc' = "aborted" /\ written' = written
    /\ UNCHANGED <<dir, parent_writable, img, driver, console>>

(* Variant: a save empties the directory before it writes.                  *)
Save_Clobber(at, path, fmt, next) ==
    /\ pc = at
    /\ output_path' = path
    /\ \E fault \in Faults :
          /\ files' = [p \in Paths |->
                          IF p = path THEN AfterSave(files[p], fmt, img, fault)
                          ELSE Absent]
          /\ IF fault = "none"
             THEN pc' = next /\ written' = written \cup {path}
             ELSE pc' = "aborted" /\ written' = written
    /\ UNCHANGED <<dir, parent_writable, img, driver, console>>

(* output_path = os.path.join(OUTPUT_DIR, name); img.save(output_path, fmt) *)
Save(at, path, fmt, next) ==
    /\ pc = at
    /\ output_path' = path
    /\ \E fault \in Faults :
          /\ files' = [files EXCEPT ![path] = AfterSave(@, fmt, img, fault)]
          /\ IF fault = "none"
             THEN pc' = next /\ written' = written \cup {path}
             ELSE pc' = "aborted" /\ written' = written
    /\ UNCHANGED <<dir, parent_writable, img, driver, console>>

(* print(f"Created: {output_path}"); return output_path                     *)
PrintAndReturn(at) ==
    /\ pc = at
    /\ console' = Append(console, Created(output_path))
    /\ returned' = Append(returned, output_path)
    /\ ip' = ip + 1
    /\ img' = NoImage
    /\ pc' = "main"
    /\ UNCHANGED <<fs, output_path, run, order, calls, before, written>>

(* The statements before the save: the raster is allocated and drawn.       *)
Draw(at, im, next) ==
    /\ pc = at
    /\ img' = im
    /\ pc' = next
    /\ UNCHANGED <<fs, output_path, driver, console, written>>

(***************************************************************************)
(* create_dmg_background (lines 21-56).                                     *)
(***************************************************************************)
DmgDraw == Draw("dmg_draw", DmgImage, "dmg_save")
DmgSave == Save("dmg_save", DMG_PATH, "PNG", "dmg_print")
DmgPrint == PrintAndReturn("dmg_print")

create_dmg_background == DmgDraw \/ DmgSave \/ DmgPrint

(***************************************************************************)
(* create_nsis_header (lines 59-74).                                        *)
(***************************************************************************)
HeaderDraw == Draw("header_draw", HeaderImage, "header_save")
HeaderSave == Save("header_save", HEADER_PATH, "BMP", "header_print")
HeaderPrint == PrintAndReturn("header_print")

create_nsis_header == HeaderDraw \/ HeaderSave \/ HeaderPrint

(***************************************************************************)
(* create_nsis_sidebar (lines 77-95).                                       *)
(***************************************************************************)
SidebarDraw == Draw("sidebar_draw", SidebarImage, "sidebar_save")
SidebarSave == Save("sidebar_save", SIDEBAR_PATH, "BMP", "sidebar_print")
SidebarPrint == PrintAndReturn("sidebar_print")

create_nsis_sidebar == SidebarDraw \/ SidebarSave \/ SidebarPrint

(***************************************************************************)
(* The script is run again, as a new process, right after a run that ended  *)
(* normally.                                                                *)
(***************************************************************************)
Rerun ==
    /\ pc = "done"
    /\ run < MaxRuns
    /\ run' = run + 1
    /\ pc' = "makedirs"
    /\ ip' = 0
    /\ calls' = <<>>
    /\ returned' = <<>>
    /\ img' = NoImage
    /\ output_path' = ""
    /\ console' = <<>>
    /\ written' = {}
    /\ before' = files
    /\ UNCHANGED <<fs, order>>

Next ==
    \/ makedirs
    \/ PrintStart
    \/ Call
    \/ create_dmg_background
    \/ create_nsis_header
    \/ create_nsis_sidebar
    \/ PrintDone
    \/ Rerun

Spec == Init /\ [][Next]_vars

(***************************************************************************)
(* The creators called in any order: the driver makes the three calls in    *)
(* an order fixed at the start, over a directory that holds all three names *)
(* or all but nsis-header.bmp, and the script is run once.                  *)
(***************************************************************************)
Orders ==
    {s \in [1..3 -> Creators] : \A a, b \in 1..3 : s[a] = s[b] => a = b}

InitAnyOrder ==
    /\ dir = "dir"
    /\ parent_writable = TRUE
    /\ files \in {[p \in Paths |-> Other],
                  [p \in Paths |-> IF p = HEADER_PATH THEN Absent ELSE Other]}
    /\ InitProcess
    /\ order \in Orders

NextOnce ==
    \/ makedirs
    \/ PrintStart
    \/ Call
    \/ create_dmg_background
    \/ create_nsis_header
    \/ create_nsis_sidebar
    \/ PrintDone

SpecAnyOrder == InitAnyOrder /\ [][NextOnce]_vars

(***************************************************************************)
(* Reference values the properties are stated with.                         *)
(***************************************************************************)
PathOf(name) ==
    CASE name = "create_dmg_background" -> DMG_PATH
      [] name = "create_nsis_header" -> HEADER_PATH
      [] name = "create_nsis_sidebar" -> SIDEBAR_PATH

IsBg(c) == c = <<245, 245, 247>>
IsArrow(c) == c = <<160, 160, 165>>

(* The band the shaft lies in: columns 260..388, within 2 rows of row 190.  *)
InShaftBand(x, y) == x >= 260 /\ x <= 388 /\ y >= 188 /\ y <= 192

(* (x, y) lies in the closed triangle (400,190), (386,180), (386,200).      *)
InTriangle(x, y) ==
    /\ x >= 386
    /\ y >= 180 /\ y <= 200
    /\ 10 * (x - 386) <= 14 * (10 - Abs(y - 190))

(* (x, y) lies at most half a pixel to the right of that triangle.          *)
NearTriangle(x, y) ==
    /\ x >= 386
    /\ y >= 180 /\ y <= 200
    /\ 10 * (x - 386) <= 14 * (10 - Abs(y - 190)) + 5

BgRow == AsSeq([c \in 1..660 |-> 245 + 256 * 245 + 65536 * 247])

(* The rows away from the arrow are background; in the rows 180..200 every  *)
(* pixel is background or arrow, and an arrow pixel satisfies Where.        *)
DmgPixelsOk(im, Where(_, _)) ==
    /\ \A y \in (0..179) \cup (201..399) : im.rows[y + 1] = BgRow
    /\ \A y \in 180..200 : \A x \in 0..659 :
          LET c == GetPixel(im, x, y)
          IN  /\ IsBg(c) \/ IsArrow(c)
              /\ IsArrow(c) => Where(x, y)

ClaimedArrow(x, y) == InShaftBand(x, y) \/ InTriangle(x, y)
AmendedArrow(x, y) == InShaftBand(x, y) \/ NearTriangle(x, y)

DmgPointsOk(im) ==
    /\ im.width = 660 /\ im.height = 400
    /\ IsBg(GetPixel(im, 10, 10))
    /\ IsArrow(GetPixel(im, 400, 190))
    /\ IsBg(GetPixel(im, 300, 50))

(* The header as the gradient of its columns, the sidebar as the gradient   *)
(* of its rows, the background as the arrow on its fill.                    *)
HeaderRef(x) ==
    <<(249 * 150 - 30 * x) \div 150, Max(80, 115 - ((35 * x) \div 150)), 22>>

SidebarRef(y) ==
    <<(249 * 314 - 50 * y) \div 314, (115 * 314 - 40 * y) \div 314,
      (22 * 314 + 10 * y) \div 314>>

DmgRef(x, y) ==
    IF \/ (x >= 260 /\ x <= 388 /\ y >= 189 /\ y <= 192)
       \/ (NearTriangle(x, y) /\ y >= 180)
    THEN <<160, 160, 165>> ELSE <<245, 245, 247>>

RefRaster(w, h, Colour(_, _)) ==
    [width |-> w, height |-> h,
     rows |-> AsSeq([r \in 1..h |-> AsSeq([c \in 1..w |-> GetInk(Colour(c - 1, r - 1))])])]

HeaderRefColour(x, y) == HeaderRef(x)
SidebarRefColour(x, y) == SidebarRef(y)

RefFiles ==
    [p \in Paths |->
        IF p = DMG_PATH THEN Encoded("PNG", RefRaster(660, 400, DmgRef))
        ELSE IF p = HEADER_PATH THEN Encoded("BMP", RefRaster(150, 57, HeaderRefColour))
        ELSE Encoded("BMP", RefRaster(164, 314, SidebarRefColour))]

Printed(line) == \E k \in 1..Len(console) : console[k] = line

(***************************************************************************)
(* C1.  In every run in which no step fails the console holds exactly five  *)
(* lines: the start banner, the confirmations for dmg-background.png,       *)
(* nsis-header.bmp and nsis-sidebar.bmp in that order, the completion       *)
(* banner; the three creators have been invoked once each in the order      *)
(* create_dmg_background, create_nsis_header, create_nsis_sidebar; and the  *)
(* completion banner is printed only once all three files are written.      *)
(***************************************************************************)
C1_SuccessfulRun ==
    /\ pc = "done" =>
          /\ console = <<"Generating minimal installer assets...",
                         "Created: " \o OUTPUT_DIR \o "/dmg-background.png",
                         "Created: " \o OUTPUT_DIR \o "/nsis-header.bmp",
                         "Created: " \o OUTPUT_DIR \o "/nsis-sidebar.bmp",
                         "Done!">>
          /\ calls = <<"create_dmg_background", "create_nsis_header",
                       "create_nsis_sidebar">>
    /\ Printed("Done!") =>
          /\ written = Paths
          /\ \A p \in Paths : files[p].state = "written"

C1_Witness == pc = "done" /\ run = 1 /\ Len(console) = 5 /\ written = Paths

(***************************************************************************)
(* C2, as claimed.  After create_nsis_header has drawn, the image is 150 by *)
(* 57 and pixel (x, y) is (shade, green, 22) with shade = trunc(249 -       *)
(* (x/150)*30) and green = trunc(max(80, 115 - (x/150)*35)), the truncation *)
(* taken of the whole expression.                                           *)
(***************************************************************************)
C2_Claimed ==
    pc = "header_save" =>
        /\ img.width = 150 /\ img.height = 57
        /\ \A x \in 0..149 : \A y \in 0..56 :
              GetPixel(img, x, y) =
                  <<(249 * 150 - 30 * x) \div 150,
                    Max(80 * 150, 115 * 150 - 35 * x) \div 150, 22>>

(***************************************************************************)
(* C2, amended.  After create_nsis_header has drawn, the image is 150 by 57 *)
(* and pixel (x, y) is (shade, green, 22) with shade = trunc(249 -          *)
(* (x/150)*30) and green = max(80, 115 - trunc((x/150)*35)): the product is *)
(* truncated before the subtraction.  The colour depends on x only, no      *)
(* pixel keeps the initial fill unless its column's colour is the fill, and *)
(* the saved file decodes to the same pixels.                               *)
(***************************************************************************)
C2_HeaderGradient ==
    /\ pc = "header_save" =>
          /\ img.width = 150 /\ img.height = 57
          /\ \A x \in 0..149 : \A y \in 0..56 :
                /\ GetPixel(img, x, y) =
                      <<(249 * 150 - 30 * x) \div 150,
                        Max(80, 115 - ((35 * x) \div 150)), 22>>
                /\ GetPixel(img, x, y) = GetPixel(img, x, 0)
    /\ pc = "header_print" =>
          /\ files[HEADER_PATH].format = "BMP"
          /\ files[HEADER_PATH].width = 150 /\ files[HEADER_PATH].height = 57
          /\ \A x \in 0..149 : \A y \in 0..56 :
                FilePixel(files[HEADER_PATH], x, y) = GetPixel(img, x, y)

C2_Witness ==
    /\ pc = "header_save"
    /\ GetPixel(img, 1, 0) = <<248, 115, 22>>
    /\ GetPixel(img, 149, 56) = <<219, 81, 22>>

(***************************************************************************)
(* C3.  After create_nsis_sidebar has drawn, the image is 164 by 314 and    *)
(* pixel (x, y) is (trunc(249 - 50*y/314), trunc(115 - 40*y/314),           *)
(* trunc(22 + 10*y/314)), the quotient y/314 being exact; every pixel of    *)
(* row 0 is (249, 115, 22) and every pixel of row 313 has red channel 199.  *)
(***************************************************************************)
C3_SidebarGradient ==
    /\ pc = "sidebar_save" =>
          /\ img.width = 164 /\ img.height = 314
          /\ \A y \in 0..313 : \A x \in 0..163 :
                GetPixel(img, x, y) =
                    <<(249 * 314 - 50 * y) \div 314, (115 * 314 - 40 * y) \div 314,
                      (22 * 314 + 10 * y) \div 314>>
          /\ \A x \in 0..163 :
                /\ GetPixel(img, x, 0) = <<249, 115, 22>>
                /\ GetPixel(img, x, 313)[1] = 199
    /\ pc = "sidebar_print" =>
          /\ files[SIDEBAR_PATH].format = "BMP"
          /\ files[SIDEBAR_PATH].width = 164 /\ files[SIDEBAR_PATH].height = 314
          /\ \A x \in {0, 163} : \A y \in 0..313 :
                FilePixel(files[SIDEBAR_PATH], x, y) = GetPixel(img, x, y)

C3_Witness ==
    /\ pc = "sidebar_save"
    /\ GetPixel(img, 163, 313) = <<199, 75, 31>>
    /\ GetPixel(img, 0, 157) = <<224, 95, 27>>

(***************************************************************************)
(* C4, as claimed.  After create_dmg_background has drawn, the image is 660 *)
(* by 400, (10, 10) and (300, 50) are background, the tip (400, 190) is     *)
(* arrow coloured, every pixel is background or arrow coloured, and an      *)
(* arrow coloured pixel lies in the shaft band or in the triangle (400,190),*)
(* (386,180), (386,200).                                                    *)
(***************************************************************************)
C4_Claimed ==
    pc = "dmg_save" => DmgPointsOk(img) /\ DmgPixelsOk(img, ClaimedArrow)

(***************************************************************************)
(* C4, amended.  The same, an arrow coloured pixel lying in the shaft band  *)
(* (columns 260..388, four rows of each column, within two rows of row 190) *)
(* or at most half a pixel to the right of the triangle: the fill rounds    *)
(* the end of each scan line to the nearest pixel.  The saved PNG decodes   *)
(* to the same size and to the same three pixels.                           *)
(***************************************************************************)
C4_DmgBackground ==
    /\ pc = "dmg_save" =>
          /\ DmgPointsOk(img)
          /\ DmgPixelsOk(img, AmendedArrow)
          /\ \A x \in 260..385 :
                Cardinality({y \in 180..200 : IsArrow(GetPixel(img, x, y))}) = 4
    /\ pc = "dmg_print" =>
          /\ files[DMG_PATH].format = "PNG"
          /\ files[DMG_PATH].width = 660 /\ files[DMG_PATH].height = 400
          /\ IsBg(FilePixel(files[DMG_PATH], 10, 10))
          /\ IsArrow(FilePixel(files[DMG_PATH], 400, 190))
          /\ IsBg(FilePixel(files[DMG_PATH], 300, 50))

C4_Witness ==
    /\ pc = "dmg_save"
    /\ IsArrow(GetPixel(img, 400, 190))
    /\ IsArrow(GetPixel(img, 389, 182)) /\ ~InTriangle(389, 182)
    /\ IsArrow(GetPixel(img, 260, 190))

(***************************************************************************)
(* C5.  In the header image column 0 has red channel 249 and the red        *)
(* channel never increases with x: red(x1) >= red(x2) for x1 < x2.          *)
(***************************************************************************)
C5_RedNonIncreasing ==
    pc = "header_save" =>
        /\ \A y \in 0..56 : GetPixel(img, 0, y)[1] = 249
        /\ \A x \in 0..149 : \A y \in 0..56 :
              GetPixel(img, x, y)[1] = GetPixel(img, x, 0)[1]
        /\ \A x1 \in 0..149 : \A x2 \in 0..149 :
              x1 < x2 => GetPixel(img, x1, 0)[1] >= GetPixel(img, x2, 0)[1]

C5_Witness ==
    /\ pc = "header_save"
    /\ GetPixel(img, 0, 0)[1] = 249
    /\ GetPixel(img, 4, 0)[1] = 248
    /\ GetPixel(img, 149, 0)[1] = 219

(***************************************************************************)
(* C6.  If the save of a creator fails the process aborts at once: no later *)
(* creator has been invoked, no later file is touched, the completion       *)
(* banner is not printed, and every file this run wrote before keeps the    *)
(* content written (nothing is rolled back).  When the save of              *)
(* nsis-header.bmp fails, dmg-background.png is written, nsis-sidebar.bmp   *)
(* is as the run found it and "Done!" is not printed.  Nothing follows an   *)
(* abort, and a file written by a run is not changed again by that run.     *)
(***************************************************************************)
C6_AbortState ==
    (pc = "aborted" /\ calls # <<>>) =>
        /\ ~Printed("Done!")
        /\ Len(calls) = ip + 1
        /\ output_path = PathOf(calls[Len(calls)])
        /\ output_path \notin written
        /\ written = {PathOf(calls[k]) : k \in 1..ip}
        /\ \A p \in written : files[p] = RefFiles[p]
        /\ \A p \in Paths \ (written \cup {output_path}) : files[p] = before[p]
        /\ output_path = HEADER_PATH /\ order = MainCalls =>
              /\ files[DMG_PATH].state = "written"
              /\ files[DMG_PATH].format = "PNG"
              /\ SIDEBAR_PATH \notin written
              /\ files[SIDEBAR_PATH] = before[SIDEBAR_PATH]

C6_FatalFailure ==
    /\ []C6_AbortState
    /\ [][pc # "aborted"]_vars
    /\ [][\A p \in written : files'[p] = files[p]]_vars

C6_Witness ==
    /\ pc = "aborted"
    /\ output_path = HEADER_PATH
    /\ written = {DMG_PATH}
    /\ files[DMG_PATH].state = "written"
    /\ before[SIDEBAR_PATH] = Other
    /\ files[SIDEBAR_PATH] = Other

(***************************************************************************)
(* C7, as claimed.  If the parent of the output directory is unwritable,    *)
(* the process ends in a fatal error before anything else happens and none  *)
(* of the three files is written.  (The parent is SCRIPT_DIR/.., which      *)
(* exists whenever the script's own directory does.)                        *)
(***************************************************************************)
C7_Claimed ==
    ~parent_writable => (pc \in {"makedirs", "aborted"} /\ written = {})

(***************************************************************************)
(* C7, amended.  If the output directory does not exist already and its     *)
(* parent is unwritable, the process ends in a fatal error and none of the  *)
(* three files is written by that run.  Directory creation is the first     *)
(* effect of every run: nothing is printed, no creator is invoked and no    *)
(* file is touched before it has succeeded, and its failure prevents all of *)
(* them.                                                                    *)
(***************************************************************************)
C7_DirectoryFirst ==
    /\ (~parent_writable /\ dir # "dir") =>
          /\ pc \in {"makedirs", "aborted"}
          /\ written = {} /\ console = <<>> /\ calls = <<>>
          /\ files = before
    /\ pc = "makedirs" =>
          written = {} /\ console = <<>> /\ calls = <<>> /\ files = before
    /\ (pc = "aborted" /\ calls = <<>>) =>
          /\ dir # "dir" /\ (dir = "absent" => ~parent_writable)
          /\ written = {} /\ console = <<>> /\ files = before
    /\ (console # <<>> \/ calls # <<>> \/ written # {}) => dir = "dir"

C7_Witness ==
    /\ pc = "aborted"
    /\ ~parent_writable /\ dir = "absent"
    /\ written = {} /\ console = <<>> /\ calls = <<>>

(***************************************************************************)
(* C8.  The generator is idempotent.  From any state of the filesystem in   *)
(* which the output directory exists or can be created, whatever the three  *)
(* names hold, a run that succeeds ends with the same three file contents;  *)
(* a second run right after it finds the directory, does not fail on it or  *)
(* on the existing files (it can abort only in a save), writes all three    *)
(* files again and leaves the contents it found.                            *)
(***************************************************************************)
C8_Idempotent ==
    /\ pc = "done" =>
          /\ files = RefFiles
          /\ written = Paths
          /\ dir = "dir"
    /\ run >= 2 =>
          /\ before = RefFiles
          /\ dir = "dir"
          /\ pc = "aborted" => calls # <<>> /\ output_path = PathOf(calls[Len(calls)])
          /\ pc = "done" => files = before

C8_Witness ==
    /\ pc = "done" /\ run = 2
    /\ written = Paths
    /\ files = before

(***************************************************************************)
(* C9.  The three creators are independent of the order of their calls: for *)
(* every permutation the run ends with the same three file contents, a      *)
(* creator writes its own file only (a file not written by the run is as    *)
(* the run found it, unless it is the one whose save failed, and a written  *)
(* file keeps its content while the others run), and the console differs    *)
(* only by the order of the confirmation lines, which is the call order.    *)
(***************************************************************************)
C9_OrderInsensitive ==
    /\ \A p \in written : files[p] = RefFiles[p]
    /\ \A p \in Paths \ written :
          (pc = "aborted" /\ p = output_path) \/ files[p] = before[p]
    /\ written \subseteq {PathOf(calls[k]) : k \in 1..Len(calls)}
    /\ pc = "done" =>
          /\ files = RefFiles
          /\ Len(console) = 5
          /\ console[1] = "Generating minimal installer assets..."
          /\ console[5] = "Done!"
          /\ \A k \in 1..3 : console[k + 1] = "Created: " \o PathOf(order[k])
          /\ {console[k] : k \in 2..4} =
                {"Created: " \o OUTPUT_DIR \o "/" \o n :
                    n \in {"dmg-background.png", "nsis-header.bmp", "nsis-sidebar.bmp"}}

C9_Witness ==
    /\ pc = "done"
    /\ order = <<"create_nsis_sidebar", "create_nsis_header", "create_dmg_background">>
    /\ console[2] = "Created: " \o SIDEBAR_PATH
    /\ files = RefFiles

(***************************************************************************)
(* C10.  In every execution, those that abort included, a confirmation line *)
(* for a file is printed only after this run has written the file, at most  *)
(* once per file, and names the path the creator wrote to and returns: the  *)
(* files named in the confirmation lines are among the files written so far *)
(* by the run.                                                              *)
(***************************************************************************)
C10_ConfirmAfterWrite ==
    /\ \A k \in 1..Len(console) :
          \/ console[k] = "Generating minimal installer assets..." /\ k = 1
          \/ console[k] = "Done!" /\ k = Len(console)
          \/ \E p \in written :
                /\ console[k] = "Created: " \o p
                /\ files[p].state = "written"
                /\ k >= 2 /\ returned[k - 1] = p
    /\ \A k, l \in 1..Len(console) : console[k] = console[l] => k = l
    /\ \A k \in 1..Len(returned) :
          returned[k] \in written /\ console[k + 1] = "Created: " \o returned[k]
    /\ Len(returned) = ip

C10_Witness ==
    /\ pc = "aborted"
    /\ console = <<"Generating minimal installer assets...", "Created: " \o DMG_PATH>>
    /\ written = {DMG_PATH}
    /\ output_path = HEADER_PATH

=============================================================================
